---- MODULE Spec2Model ----
(***************************************************************************)
(* Magnetgetriebe search application (src/app.py).                         *)
(*                                                                         *)
(* The script reads a headerless spreadsheet into the grid df, extracts    *)
(* one record per 5-row block of every column into df_all, and then runs   *)
(* six filter tabs in order.  Each tab filters df_all by one or two        *)
(* inclusive ranges, copies the six displayed columns and hands the copy   *)
(* to farbige_und_zentrierte_formatierung, which scores every row with     *)
(* berechne_qualitaet and colours it.                                      *)
(*                                                                         *)
(* Numbers are fixed point: the integer v stands for v / Scale, so 25 is   *)
(* 2.5.  A cell is a record [k, v] with k = "num" (a number), "nan" (a     *)
(* blank cell, read by pandas as NaN) or "txt" (a text cell).              *)
(***************************************************************************)
EXTENDS Integers, Sequences, FiniteSets, TLC

VARIABLES
  df,        \* the spreadsheet as read by pd.read_excel
  df_all,    \* the extracted records
  pc,        \* where the script stands
  err,       \* the exception that stopped the script, or "none"
  widgets,   \* the widget values of the last filter request
  filtered,  \* the last filter result (gear_ratio_filtered, ...)
  display,   \* the copy handed to the formatter, as the formatter left it
  styled     \* the cell styles of the table shown last

vars == <<df, df_all, pc, err, widgets, filtered, display, styled>>

-----------------------------------------------------------------------------
(* Bounds of the model and constants of the program *)

MaxRows == 12
MaxCols == 2
NumSeeds == 1
MaxOddRow == 6
MaxPole == 8

\* step=0.1 of the number inputs: one unit of the model is 1/Scale
Scale == 10
\* start_row += 5
BlockRows == 5

-----------------------------------------------------------------------------
(* Cells *)

Num(v) == [k |-> "num", v |-> v]
NaN == [k |-> "nan", v |-> 0]
Txt == [k |-> "txt", v |-> 0]

Abs(x) == IF x < 0 THEN -x ELSE x

\* Python's a // b on integers, b # 0: the floor of the quotient
FloorDiv(a, b) ==
  IF b > 0 THEN a \div b ELSE (-a) \div (-b)

\* Python's a / b on integers, b # 0, as a fixed-point number (floored at
\* the last kept digit; exact whenever b divides a)
TrueDiv(a, b) == FloorDiv(a * Scale, b)

\* Rounding with ties away from the floor (half up) in place of ties to even
PyRound_halfup(v) ==
  LET q == v \div Scale
      r == v % Scale
  IN  IF 2 * r < Scale THEN q ELSE q + 1

\* int(round(x)) for a float x = v / Scale: nearest integer, ties to even
PyRound(v) ==
  LET q == v \div Scale
      r == v % Scale
  IN  IF 2 * r < Scale THEN q
      ELSE IF 2 * r > Scale THEN q + 1
      ELSE IF q % 2 = 0 THEN q ELSE q + 1

\* math.gcd: Euclid's algorithm on the absolute values, gcd(0, 0) = 0
RECURSIVE Euclid(_, _)
Euclid(a, b) == IF b = 0 THEN a ELSE Euclid(b, a % b)

gcd(a, b) == Euclid(Abs(a), Abs(b))

-----------------------------------------------------------------------------
(* Quality scoring and colouring *)

Returned(v) == [ok |-> TRUE, v |-> v, exc |-> "none"]
Raised(e) == [ok |-> FALSE, v |-> 0, exc |-> e]

\* int(round(cell)): a text cell raises TypeError, NaN raises ValueError
IntRound(cell) ==
  IF cell.k = "txt" THEN Raised("TypeError")
  ELSE IF cell.k = "nan" THEN Raised("ValueError")
  ELSE Returned(PyRound(cell.v))

\* berechne_qualitaet with the division by the gcd forgotten in kgv
berechne_qualitaet_produkt(row) ==
  LET m == IntRound(row.Modulatorzahl)
      r == IntRound(row.PolzahlRotor)
  IN  IF ~m.ok THEN m
      ELSE IF ~r.ok THEN r
      ELSE LET kgv == m.v * r.v
           IN  IF kgv = 0 THEN Raised("ZeroDivisionError")
               ELSE Returned(TrueDiv(m.v * r.v, kgv))

\* berechne_qualitaet answering 0 where the division is undefined
berechne_qualitaet_sentinel(row) ==
  LET m == IntRound(row.Modulatorzahl)
      r == IntRound(row.PolzahlRotor)
  IN  IF ~m.ok THEN m
      ELSE IF ~r.ok THEN r
      ELSE LET g == gcd(m.v, r.v)
           IN  IF g = 0 \/ FloorDiv(m.v * r.v, g) = 0 THEN Returned(0)
               ELSE Returned(TrueDiv(m.v * r.v, FloorDiv(m.v * r.v, g)))

berechne_qualitaet(row) ==
  LET m == IntRound(row.Modulatorzahl)
      r == IntRound(row.PolzahlRotor)
  IN  IF ~m.ok THEN m
      ELSE IF ~r.ok THEN r
      ELSE LET mod == m.v
               rotor == r.v
               g == gcd(mod, rotor)
           IN  IF g = 0 THEN Raised("ZeroDivisionError")
               ELSE LET kgv == FloorDiv(mod * rotor, g)
                    IN  IF kgv = 0 THEN Raised("ZeroDivisionError")
                        ELSE Returned(TrueDiv(mod * rotor, kgv))

Green == "background-color: rgba(0, 255, 0, 0.7); text-align: center"
Yellow == "background-color: rgba(255, 255, 0, 0.7); text-align: center"
Red == "background-color: rgba(255, 0, 0, 0.7); text-align: center"

\* farbe_und_zentrierung with the medium band opened upwards
farbe_und_zentrierung_ab2(qualitaet) ==
  IF qualitaet = 1 * Scale THEN Green
  ELSE IF qualitaet >= 2 * Scale THEN Yellow
  ELSE Red

farbe_und_zentrierung(qualitaet) ==
  IF qualitaet = 1 * Scale THEN Green
  ELSE IF qualitaet = 2 * Scale THEN Yellow
  ELSE Red

DisplayColumns ==
  {"PolzahlStator", "PolzahlRotor", "Modulatorzahl", "Uebersetzung",
   "DrehmomentModulator", "DrehmomentRotor"}

\* df.loc[i, "Qualitaet"]: the quality of the row labelled i
Loc(d, i) == (CHOOSE j \in 1..Len(d) : d[j].index = i)

\* The frame handed in gains the column Qualitaet (the argument itself is
\* assigned to); the styler gives every cell of a row the row's colour.
\* df.apply on a frame without rows returns a frame, not a column, and
\* the assignment of it to one column raises in current pandas versions;
\* emptyRaises chooses between that and an empty table.
farbige_und_zentrierte_formatierung(d, emptyRaises) ==
  LET q == [j \in 1..Len(d) |-> berechne_qualitaet(d[j])]
      bad == {j \in 1..Len(d) : ~q[j].ok}
  IN  IF Len(d) = 0
      THEN IF emptyRaises
           THEN [ok |-> FALSE, exc |-> "ValueError", df |-> d, styled |-> <<>>]
           ELSE [ok |-> TRUE, exc |-> "none", df |-> d, styled |-> <<>>]
      ELSE IF bad # {}
      THEN [ok |-> FALSE,
            exc |-> q[CHOOSE j \in bad : \A i \in bad : j <= i].exc,
            df |-> d, styled |-> <<>>]
      ELSE LET scored == [j \in 1..Len(d) |->
                            [index |-> d[j].index,
                             PolzahlStator |-> d[j].PolzahlStator,
                             PolzahlRotor |-> d[j].PolzahlRotor,
                             Modulatorzahl |-> d[j].Modulatorzahl,
                             Uebersetzung |-> d[j].Uebersetzung,
                             DrehmomentModulator |-> d[j].DrehmomentModulator,
                             DrehmomentRotor |-> d[j].DrehmomentRotor,
                             Qualitaet |-> q[j].v]]
           IN  [ok |-> TRUE, exc |-> "none", df |-> scored,
                styled |-> [j \in 1..Len(d) |->
                  [c \in DisplayColumns |->
                    farbe_und_zentrierung(
                      scored[Loc(scored, scored[j].index)].Qualitaet)]]]

-----------------------------------------------------------------------------
(* The spreadsheet *)

\* df.iloc[r, c], both counted from 0
iloc(d, r, c) == d[r + 1][c + 1]

\* len(df) and len(df.columns)
NumRows(d) == Len(d)
NumCols(d) == IF Len(d) = 0 THEN 0 ELSE Len(d[1])

\* Gear variants the sheets of the model are filled from:
\* <<rotor poles, modulators, ratio, modulator torque, rotor torque>>
Catalogue ==
  << <<40, 60, 15, 30, 20>>,
     <<30, 50, 25, 20, 10>>,
     <<40, 80, 20, 15, 25>>,
     <<90, 60, 10, 25, 15>> >>

SheetCell(r, c, seed) ==
  IF r = 0 THEN Num(Scale * (10 + 2 * c))
  ELSE LET k == (r - 1) \div BlockRows
           o == (r - 1) % BlockRows
       IN  Num(Catalogue[((k + c + seed - 1) % Len(Catalogue)) + 1][o + 1])

Keep == [k |-> "keep", v |-> 0]

\* What one odd cell of a sheet may hold: blank, text, zero, a negative
\* number, a number halfway between two integers
OddCells == {NaN, Txt, Num(0), Num(-40), Num(25)}

\* The sheet with R rows and C columns filled from the catalogue, the cell
\* in row sr of column 0 replaced by odd unless odd = Keep
Sheet(R, C, seed, sr, odd) ==
  [r1 \in 1..R |->
    [c1 \in 1..C |->
      IF odd # Keep /\ r1 - 1 = sr /\ c1 = 1 THEN odd
      ELSE SheetCell(r1 - 1, c1 - 1, seed)]]

\* pd.read_excel(header=None) yields either the empty frame or a frame with
\* at least one row and one column
Sheets ==
  { Sheet(p[1], p[2], p[3], p[4], p[5]) :
      p \in { q \in (0..MaxRows) \X (0..MaxCols) \X (1..NumSeeds)
                    \X (0..MaxOddRow) \X (OddCells \cup {Keep}) :
                /\ (q[1] = 0) <=> (q[2] = 0)
                /\ q[5] = Keep => q[4] = 0
                /\ q[5] # Keep => q[4] < q[1] } }

-----------------------------------------------------------------------------
(* Extraction *)

\* The while loop with a bound that stops one block early when the rows
\* end exactly with a block
RECURSIVE ExtractColumn_early(_, _, _)
ExtractColumn_early(d, col, start_row) ==
  IF start_row + BlockRows < NumRows(d)
  THEN << [Spalte |-> col,
           PolzahlStator |-> iloc(d, 0, col),
           PolzahlRotor |-> iloc(d, start_row, col),
           Modulatorzahl |-> iloc(d, start_row + 1, col),
           Uebersetzung |-> iloc(d, start_row + 2, col),
           DrehmomentModulator |-> iloc(d, start_row + 3, col),
           DrehmomentRotor |-> iloc(d, start_row + 4, col)] >>
       \o ExtractColumn_early(d, col, start_row + BlockRows)
  ELSE << >>

\* The while loop of one column, from start_row on
RECURSIVE ExtractColumn(_, _, _)
ExtractColumn(d, col, start_row) ==
  IF start_row + 4 < NumRows(d)
  THEN << [Spalte |-> col,
           PolzahlStator |-> iloc(d, 0, col),
           PolzahlRotor |-> iloc(d, start_row, col),
           Modulatorzahl |-> iloc(d, start_row + 1, col),
           Uebersetzung |-> iloc(d, start_row + 2, col),
           DrehmomentModulator |-> iloc(d, start_row + 3, col),
           DrehmomentRotor |-> iloc(d, start_row + 4, col)] >>
       \o ExtractColumn(d, col, start_row + BlockRows)
  ELSE << >>

\* The for loop over df.columns, from column col on
RECURSIVE ExtractColumns(_, _)
ExtractColumns(d, col) ==
  IF col < NumCols(d)
  THEN ExtractColumn(d, col, 1) \o ExtractColumns(d, col + 1)
  ELSE << >>

\* pd.DataFrame(results): the records in order, labelled 0, 1, 2, ...
DataFrame(results) ==
  [i \in 1..Len(results) |->
    [index |-> i - 1,
     Spalte |-> results[i].Spalte,
     PolzahlStator |-> results[i].PolzahlStator,
     PolzahlRotor |-> results[i].PolzahlRotor,
     Modulatorzahl |-> results[i].Modulatorzahl,
     Uebersetzung |-> results[i].Uebersetzung,
     DrehmomentModulator |-> results[i].DrehmomentModulator,
     DrehmomentRotor |-> results[i].DrehmomentRotor]]

\* Lines 166-194.  df.iloc[0, :] raises IndexError on a frame without rows.
Extract ==
  /\ pc = "load"
  /\ IF NumRows(df) = 0
     THEN /\ pc' = "error"
          /\ err' = "IndexError"
          /\ UNCHANGED df_all
     ELSE /\ df_all' = DataFrame(ExtractColumns(df, 0))
          /\ pc' = "tab_uebersetzung"
          /\ UNCHANGED err
  /\ UNCHANGED <<df, widgets, filtered, display, styled>>

-----------------------------------------------------------------------------
(* Range filters *)

\* What the widgets of the model offer: st.number_input values (min_value
\* 0.0) for the torque targets and the tolerances
Targets == {15, 20}
Tolerances == {0, 5}
\* What may stand in the state of a tolerance widget when the script runs:
\* the values the widget offers and one value below its min_value
Entered == Tolerances \cup {-5}

\* Whether df.apply on a frame without rows ends in an exception: open for
\* a frame without rows, of no effect otherwise
EmptyApplyRaises(d) == IF Len(d) = 0 THEN BOOLEAN ELSE {FALSE}

\* sorted(df_all["Uebersetzung"].unique()): what the selectbox offers
ratio_list(d) == {d[i].Uebersetzung : i \in 1..Len(d)}

\* target - tolerance and target + tolerance; NaN stays NaN
Minus(target, tolerance) ==
  IF target.k = "num" THEN Num(target.v - tolerance) ELSE NaN
Plus(target, tolerance) ==
  IF target.k = "num" THEN Num(target.v + tolerance) ELSE NaN

\* cell >= bound and cell <= bound; a comparison with NaN is False
Ge(cell, bound) == cell.k = "num" /\ bound.k = "num" /\ cell.v >= bound.v
Le_strict(cell, bound) ==
  cell.k = "num" /\ bound.k = "num" /\ cell.v < bound.v
Le(cell, bound) == cell.k = "num" /\ bound.k = "num" /\ cell.v <= bound.v

\* (df_all[field] >= min) & (df_all[field] <= max), row by row
RangeMask(d, field, min, max) ==
  [i \in 1..Len(d) |-> Ge(d[i][field], min) /\ Le(d[i][field], max)]

\* mask1 & mask2
MaskAnd(mask1, mask2) == [i \in DOMAIN mask1 |-> mask1[i] /\ mask2[i]]

\* df_all[mask]: the rows whose mask entry is True, in order, labels kept
\* (the rows of df_all are labelled 0, 1, ... in order)
BoolIndex(d, mask) == SelectSeq(d, LAMBDA row : mask[row.index + 1])

\* frame[[the six displayed columns]]
SelectColumns(d) ==
  [j \in 1..Len(d) |->
    [index |-> d[j].index,
     PolzahlStator |-> d[j].PolzahlStator,
     PolzahlRotor |-> d[j].PolzahlRotor,
     Modulatorzahl |-> d[j].Modulatorzahl,
     Uebersetzung |-> d[j].Uebersetzung,
     DrehmomentModulator |-> d[j].DrehmomentModulator,
     DrehmomentRotor |-> d[j].DrehmomentRotor]]

\* A comparison of a text cell with a number raises TypeError
HasText(d, field) == \E i \in 1..Len(d) : d[i][field].k = "txt"

\* The formatter handed the filtered frame itself as a view of df_all: the
\* column assignment writes through
styled_display_inplace(dfall, result_display, emptyRaises) ==
  LET f == farbige_und_zentrierte_formatierung(result_display, emptyRaises)
  IN  [ok |-> f.ok, exc |-> f.exc, df_all |-> f.df,
       display |-> f.df, styled |-> f.styled]

\* farbige_und_zentrierte_formatierung(result_display.copy()): the formatter
\* is handed a copy, so its column assignment lands on the copy and df_all
\* stays as it is
styled_display(dfall, result_display, emptyRaises) ==
  LET f == farbige_und_zentrierte_formatierung(result_display, emptyRaises)
  IN  [ok |-> f.ok, exc |-> f.exc, df_all |-> dfall,
       display |-> f.df, styled |-> f.styled]

\* The script stops with exception e
Stop(e) ==
  /\ pc' = "error"
  /\ err' = e
  /\ UNCHANGED <<df, df_all, widgets, filtered, display, styled>>

\* One range request of a tab: the field and the widget values
Range(field, target, tolerance) ==
  [field |-> field, target |-> target, tolerance |-> tolerance]

\* (df_all[field] >= target - tolerance) & (df_all[field] <= target + tolerance)
RequestMask(d, req) ==
  RangeMask(d, req.field, Minus(req.target, req.tolerance),
            Plus(req.target, req.tolerance))

\* The part all tabs share: select the displayed columns of the filtered
\* frame, format the copy, show it
ShowTab(tab, reqs, flt, next) ==
  \E emptyRaises \in EmptyApplyRaises(flt) :
    \E result_display \in {SelectColumns(flt)} :
      \E out \in {styled_display(df_all, result_display, emptyRaises)} :
        /\ widgets' = [tab |-> tab, reqs |-> reqs]
        /\ filtered' = flt
        /\ df_all' = out.df_all
        /\ IF out.ok
           THEN /\ display' = out.display
                /\ styled' = out.styled
                /\ pc' = next
                /\ UNCHANGED err
           ELSE /\ pc' = "error"
                /\ err' = out.exc
                /\ UNCHANGED <<display, styled>>
        /\ UNCHANGED df

\* st.number_input without the lower bound: every value is handed on
number_input_unbounded(min_value, value) == Returned(value)

\* st.number_input(min_value=...): a widget value below min_value is not
\* permitted; the widget raises StreamlitValueBelowMinError for it
number_input(min_value, value) ==
  IF value < min_value THEN Raised("StreamlitValueBelowMinError")
  ELSE Returned(value)

\* A number input of tab raises e: the script stops before the tab has
\* computed a filter, with reqs the values entered up to that widget
Refuse(tab, reqs, e) ==
  /\ pc' = "error"
  /\ err' = e
  /\ widgets' = [tab |-> tab, reqs |-> reqs]
  /\ UNCHANGED <<df, df_all, filtered, display, styled>>

\* Lines 197-235
tab_uebersetzung ==
  /\ pc = "tab_uebersetzung"
  /\ IF Len(df_all) = 0 THEN Stop("KeyError")
     ELSE IF HasText(df_all, "Uebersetzung") THEN Stop("TypeError")
     ELSE \E selected_ratio \in ratio_list(df_all), entered \in Entered :
          \E tolerance_Uebersetzung \in {number_input(0, entered)} :
          \E reqs \in {<< Range("Uebersetzung", selected_ratio, entered) >>} :
            IF ~tolerance_Uebersetzung.ok
            THEN Refuse("tab_uebersetzung", reqs, tolerance_Uebersetzung.exc)
            ELSE \E gear_ratio_filtered \in
                      {BoolIndex(df_all, RequestMask(df_all, reqs[1]))} :
                   ShowTab("tab_uebersetzung", reqs, gear_ratio_filtered,
                           "tab_rotor")

\* Lines 239-279
tab_rotor ==
  /\ pc = "tab_rotor"
  /\ \E target_torque_Rotor \in Targets, entered \in Entered :
     \E tolerance_Rotor \in {number_input(0, entered)} :
     \E reqs \in {<< Range("DrehmomentRotor", Num(target_torque_Rotor),
                           entered) >>} :
       IF ~tolerance_Rotor.ok
       THEN Refuse("tab_rotor", reqs, tolerance_Rotor.exc)
       ELSE IF HasText(df_all, "DrehmomentRotor") THEN Stop("TypeError")
       ELSE \E torque_filtered \in
                 {BoolIndex(df_all, RequestMask(df_all, reqs[1]))} :
              ShowTab("tab_rotor", reqs, torque_filtered, "tab_mod")

\* Lines 282-322
tab_mod ==
  /\ pc = "tab_mod"
  /\ \E target_torque_MOD \in Targets, entered \in Entered :
     \E tolerance_MOD \in {number_input(0, entered)} :
     \E reqs \in {<< Range("DrehmomentModulator", Num(target_torque_MOD),
                           entered) >>} :
       IF ~tolerance_MOD.ok
       THEN Refuse("tab_mod", reqs, tolerance_MOD.exc)
       ELSE IF HasText(df_all, "DrehmomentModulator") THEN Stop("TypeError")
       ELSE \E torque_filtered_MOD \in
                 {BoolIndex(df_all, RequestMask(df_all, reqs[1]))} :
              ShowTab("tab_mod", reqs, torque_filtered_MOD, "tab_combo1")

\* Both range masks of a two-field tab joined by &, applied to df_all
ComboFilter(d, reqs) ==
  BoolIndex(d, MaskAnd(RequestMask(d, reqs[1]), RequestMask(d, reqs[2])))

\* The widgets of a two-field tab run in order, the first one that raises
\* stops the script; then the masks are computed (a text cell in field2
\* raises TypeError there) and the table is shown.  targets1 is what the
\* first field's target widget offers.
ComboTab(tab, field1, targets1, field2, next) ==
  \E target1 \in targets1, entered1 \in Entered :
  \E tolerance1 \in {number_input(0, entered1)} :
    IF ~tolerance1.ok
    THEN Refuse(tab, << Range(field1, target1, entered1) >>, tolerance1.exc)
    ELSE \E target2 \in Targets, entered2 \in Entered :
         \E tolerance2 \in {number_input(0, entered2)} :
         \E reqs \in {<< Range(field1, target1, entered1),
                         Range(field2, Num(target2), entered2) >>} :
           IF ~tolerance2.ok THEN Refuse(tab, reqs, tolerance2.exc)
           ELSE IF HasText(df_all, field1) \/ HasText(df_all, field2)
           THEN Stop("TypeError")
           ELSE \E combo_filtered \in {ComboFilter(df_all, reqs)} :
                  ShowTab(tab, reqs, combo_filtered, next)

\* Lines 325-386
tab_combo1 ==
  /\ pc = "tab_combo1"
  /\ IF HasText(df_all, "Uebersetzung") THEN Stop("TypeError")
     ELSE ComboTab("tab_combo1", "Uebersetzung", ratio_list(df_all),
                   "DrehmomentRotor", "tab_combo2")

\* Lines 389-450
tab_combo2 ==
  /\ pc = "tab_combo2"
  /\ IF HasText(df_all, "Uebersetzung") THEN Stop("TypeError")
     ELSE ComboTab("tab_combo2", "Uebersetzung", ratio_list(df_all),
                   "DrehmomentModulator", "tab_combo3")

\* Lines 453-515
tab_combo3 ==
  /\ pc = "tab_combo3"
  /\ ComboTab("tab_combo3", "DrehmomentModulator",
              {Num(target) : target \in Targets}, "DrehmomentRotor", "done")

-----------------------------------------------------------------------------
(* The script: extraction, then the six tabs in order *)

Init ==
  /\ df \in Sheets
  /\ df_all = << >>
  /\ pc = "load"
  /\ err = "none"
  /\ widgets = [tab |-> "none", reqs |-> << >>]
  /\ filtered = << >>
  /\ display = << >>
  /\ styled = << >>

Next ==
  \/ Extract
  \/ tab_uebersetzung
  \/ tab_rotor
  \/ tab_mod
  \/ tab_combo1
  \/ tab_combo2
  \/ tab_combo3

Spec == Init /\ [][Next]_vars

-----------------------------------------------------------------------------
(* The formatter on its own: one row with drawn pole and modulator cells *)

\* The cells drawn for the two scored columns: the multiples of one half
\* from -2 to MaxPole, a blank cell and a text cell
ScoredCells ==
  {Num(h * (Scale \div 2)) : h \in (-4)..(2 * MaxPole)} \cup {NaN, Txt}

OneRow(rotor, mod) ==
  << [index |-> 0,
      PolzahlStator |-> Num(10 * Scale),
      PolzahlRotor |-> rotor,
      Modulatorzahl |-> mod,
      Uebersetzung |-> Num(15),
      DrehmomentModulator |-> Num(30),
      DrehmomentRotor |-> Num(20)] >>

InitFormat ==
  /\ df = << >>
  /\ df_all = << >>
  /\ pc = "format"
  /\ err = "none"
  /\ widgets = [tab |-> "none", reqs |-> << >>]
  /\ filtered = << >>
  /\ display \in {OneRow(rotor, mod) : rotor \in ScoredCells, mod \in ScoredCells}
  /\ styled = << >>

\* farbige_und_zentrierte_formatierung(display): lines 132-151
Format ==
  /\ pc = "format"
  /\ \E out \in {farbige_und_zentrierte_formatierung(display, FALSE)} :
       IF out.ok
       THEN /\ display' = out.df
            /\ styled' = out.styled
            /\ pc' = "formatted"
            /\ UNCHANGED err
       ELSE /\ pc' = "error"
            /\ err' = out.exc
            /\ UNCHANGED <<display, styled>>
  /\ UNCHANGED <<df, df_all, widgets, filtered>>

NextFormat == Format

SpecFormat == InitFormat /\ [][NextFormat]_vars

-----------------------------------------------------------------------------
(* Properties *)

Min(a, b) == IF a < b THEN a ELSE b

IsNum(cell) == cell.k = "num"
\* The cell holds a positive whole number
IsPosInt(cell) == cell.k = "num" /\ cell.v > 0 /\ cell.v % Scale = 0
Units(cell) == cell.v \div Scale

\* The greatest common divisor and the least common multiple of two
\* positive integers, by their definitions
CommonDivisors(a, b) == {d \in 1..Min(a, b) : a % d = 0 /\ b % d = 0}
GreatestCommonDivisor(a, b) ==
  CHOOSE d \in CommonDivisors(a, b) : \A e \in CommonDivisors(a, b) : e <= d
CommonMultiples(a, b) == {m \in 1..(a * b) : m % a = 0 /\ m % b = 0}
LeastCommonMultiple(a, b) ==
  CHOOSE m \in CommonMultiples(a, b) : \A n \in CommonMultiples(a, b) : m <= n

\* The cell is a number that rounds to 0 (ties to even: -0.5 and 0.5 do)
RoundsToZero(cell) ==
  cell.k = "num" /\ -Scale <= 2 * cell.v /\ 2 * cell.v <= Scale
\* The cell is a number that rounds to a negative integer
RoundsNegative(cell) == cell.k = "num" /\ 2 * cell.v < -Scale

\* The formatter has been run on the one drawn row
FormatRun == pc \in {"formatted", "error"} /\ Len(display) = 1
HasQuality(row) == "Qualitaet" \in DOMAIN row

\* C1: for positive integers rotorPoles and modulatorCount, berechne_qualitaet
\* returns gcd(rotorPoles, modulatorCount), which is
\* (rotorPoles * modulatorCount) / lcm(rotorPoles, modulatorCount) and lies in
\* [1, min(rotorPoles, modulatorCount)].
C1_QualityIsGcd ==
  (FormatRun /\ IsPosInt(display[1].PolzahlRotor)
             /\ IsPosInt(display[1].Modulatorzahl))
  => /\ pc = "formatted"
     /\ HasQuality(display[1])
     /\ LET a == Units(display[1].PolzahlRotor)
            b == Units(display[1].Modulatorzahl)
            q == display[1].Qualitaet
        IN  /\ q = Scale * GreatestCommonDivisor(a, b)
            /\ q * LeastCommonMultiple(a, b) = Scale * a * b
            /\ Scale * 1 <= q
            /\ q <= Scale * Min(a, b)

C1_Witness ==
  /\ pc = "formatted"
  /\ Len(display) = 1
  /\ display[1].PolzahlRotor = Num(40)
  /\ display[1].Modulatorzahl = Num(60)
  /\ display[1].Qualitaet = 2 * Scale

\* C4: when rotorPoles or modulatorCount rounds to 0, berechne_qualitaet
\* raises (ZeroDivisionError when both cells are numbers) and no quality and
\* no style is produced.
C4_ZeroRaises ==
  (FormatRun /\ (RoundsToZero(display[1].PolzahlRotor)
                 \/ RoundsToZero(display[1].Modulatorzahl)))
  => /\ pc = "error"
     /\ err # "none"
     /\ ~HasQuality(display[1])
     /\ styled = << >>
     /\ (IsNum(display[1].PolzahlRotor) /\ IsNum(display[1].Modulatorzahl))
          => err = "ZeroDivisionError"

C4_Witness ==
  /\ pc = "error"
  /\ Len(display) = 1
  /\ display[1].PolzahlRotor = Num(0)
  /\ display[1].Modulatorzahl = Num(50)
  /\ err = "ZeroDivisionError"

\* C5: when rotorPoles or modulatorCount rounds to a negative integer,
\* berechne_qualitaet raises and the row gets no quality and no colour.
C5_NegativeRaises ==
  (FormatRun /\ IsNum(display[1].PolzahlRotor)
             /\ IsNum(display[1].Modulatorzahl)
             /\ (RoundsNegative(display[1].PolzahlRotor)
                 \/ RoundsNegative(display[1].Modulatorzahl)))
  => /\ pc = "error"
     /\ ~HasQuality(display[1])
     /\ styled = << >>

-----------------------------------------------------------------------------
(* Properties of the script *)

\* Extraction has run to its end
ExtractDone == pc # "load" /\ err # "IndexError"

\* Grid cell grid[r][c], rows and columns counted from 0
Grid(r, c) == df[r + 1][c + 1]

\* The number of complete 5-row blocks below row 0
NumBlocks == (NumRows(df) - 1) \div 5

\* C2: extraction yields C * floor((R-1)/5) records, column by column and
\* top to bottom within a column; the k-th record of column c holds
\* grid[0][c] and grid[1+5k][c] .. grid[5+5k][c] in the order rotor poles,
\* modulators, ratio, modulator torque, rotor torque, so no cell of a trailing
\* group of fewer than 5 rows is read.
C2_ExtractionLayout ==
  ExtractDone
  => /\ Len(df_all) = NumCols(df) * NumBlocks
     /\ \A c \in 0..(NumCols(df) - 1) : \A k \in 0..(NumBlocks - 1) :
          LET rec == df_all[c * NumBlocks + k + 1]
          IN  /\ rec.Spalte = c
              /\ rec.PolzahlStator = Grid(0, c)
              /\ rec.PolzahlRotor = Grid(1 + 5 * k, c)
              /\ rec.Modulatorzahl = Grid(2 + 5 * k, c)
              /\ rec.Uebersetzung = Grid(3 + 5 * k, c)
              /\ rec.DrehmomentModulator = Grid(4 + 5 * k, c)
              /\ rec.DrehmomentRotor = Grid(5 + 5 * k, c)

\* Two columns of two blocks each and one trailing row
C2_Witness ==
  /\ pc = "tab_uebersetzung"
  /\ NumRows(df) = 12
  /\ NumCols(df) = 2
  /\ Len(df_all) = 4

\* Record i of df_all satisfies target - tolerance <= record[field] <=
\* target + tolerance
Satisfies(i, req) ==
  /\ df_all[i][req.field].k = "num"
  /\ req.target.k = "num"
  /\ req.target.v - req.tolerance <= df_all[i][req.field].v
  /\ df_all[i][req.field].v <= req.target.v + req.tolerance

Labels(d) == {d[j].index : j \in 1..Len(d)}

\* C3: with tolerances >= 0, the filter result of a tab is the subsequence
\* of df_all, in its order, of the records that satisfy target - tolerance <=
\* record[field] <= target + tolerance for every requested field; in a
\* two-field tab it is the intersection of the two single-field results.
C3_FilterExact ==
  (widgets.tab # "none"
     /\ \A n \in 1..Len(widgets.reqs) : widgets.reqs[n].tolerance >= 0)
  => LET reqs == widgets.reqs
         keep == {i \in 1..Len(df_all) :
                    \A n \in 1..Len(reqs) : Satisfies(i, reqs[n])}
     IN  /\ Len(filtered) = Cardinality(keep)
         /\ \A j \in 1..Len(filtered) :
              /\ filtered[j].index + 1 \in keep
              /\ filtered[j] = df_all[filtered[j].index + 1]
         /\ \A j \in 1..(Len(filtered) - 1) :
              filtered[j].index < filtered[j + 1].index
         /\ Len(reqs) = 2
            => Labels(filtered)
                 = Labels(BoolIndex(df_all, RequestMask(df_all, reqs[1])))
                   \cap Labels(BoolIndex(df_all, RequestMask(df_all, reqs[2])))

\* A two-field tab that keeps some records and drops others, one of the
\* kept records lying exactly on an upper bound
C3_Witness ==
  /\ widgets.tab = "tab_combo1"
  /\ Len(filtered) >= 2
  /\ Len(filtered) < Len(df_all)
  /\ widgets.reqs[1].tolerance > 0
  /\ \E j \in 1..Len(filtered) :
       filtered[j].Uebersetzung.v
         = widgets.reqs[1].target.v + widgets.reqs[1].tolerance

\* Block k of column c holds a cell that is not a number
Malformed(c, k) == \E o \in 1..5 : ~IsNum(Grid(5 * k + o, c))

MalformedBlocks ==
  {b \in (0..(NumCols(df) - 1)) \X (0..(NumBlocks - 1)) : Malformed(b[1], b[2])}

RecordCells(rec) ==
  {rec.PolzahlRotor, rec.Modulatorzahl, rec.Uebersetzung,
   rec.DrehmomentModulator, rec.DrehmomentRotor}

\* C6: a block with a blank or text cell yields no record and every other
\* complete block yields its record: the record count is the number of
\* complete blocks minus the number of malformed blocks.
C6_MalformedSkipped ==
  ExtractDone
  => /\ Len(df_all) = NumCols(df) * NumBlocks - Cardinality(MalformedBlocks)
     /\ \A i \in 1..Len(df_all) : \A cell \in RecordCells(df_all[i]) :
          IsNum(cell)

\* The source cells of record i of df_all: its column and its block
BlockOf(i) == (i - 1) % NumBlocks
ColumnOf(i) == (i - 1) \div NumBlocks

\* n is the number stored for source cell x rounded to the nearest integer
RoundedFrom(n, x) ==
  /\ n.k = "num"
  /\ n.v % Scale = 0
  /\ 2 * (n.v - x.v) <= Scale
  /\ 2 * (x.v - n.v) <= Scale

NearestInt(v) ==
  CHOOSE n \in ((v \div Scale) - 1)..((v \div Scale) + 1) :
    /\ 2 * Abs(n * Scale - v) <= Scale
    /\ 2 * Abs(n * Scale - v) = Scale => n % 2 = 0

C8_EmptyInput ==
  (pc # "load" /\ (NumCols(df) = 0 \/ NumRows(df) < 2))
  => /\ err # "IndexError"
     /\ df_all = << >>

RecordFields ==
  {"index", "Spalte", "PolzahlStator", "PolzahlRotor", "Modulatorzahl",
   "Uebersetzung", "DrehmomentModulator", "DrehmomentRotor"}

\* C9: once extracted, df_all is never changed by a filter or by the
\* scoring and formatting of a tab: same records, same order, same fields
\* and values, no quality column.
C9_RecordsUntouched ==
  [][pc # "load"
       => /\ df_all' = df_all
          /\ \A i \in 1..Len(df_all') : DOMAIN df_all'[i] = RecordFields]_vars

\* All six tabs have run and the last one scored and showed some rows
C9_Witness ==
  /\ pc = "done"
  /\ Len(df_all) > 0
  /\ Len(display) > 0
  /\ HasQuality(display[1])
  /\ Len(styled) = Len(display)

\* The cells of displayed row j all carry the style band
RowBand(j, band) == \A c \in DisplayColumns : styled[j][c] = band

\* C10: every displayed row whose rotorPoles and modulatorCount are positive
\* integers carries one band in all its cells: green iff quality = 1, yellow
\* iff quality = 2, red iff quality > 2; its quality is an integer >= 1.
C10_Bands ==
  \A j \in 1..Len(styled) :
    (IsPosInt(display[j].PolzahlRotor) /\ IsPosInt(display[j].Modulatorzahl))
    => LET q == display[j].Qualitaet
       IN  /\ DOMAIN styled[j] = DisplayColumns
           /\ q % Scale = 0
           /\ q >= 1 * Scale
           /\ Cardinality({band \in {Green, Yellow, Red} : RowBand(j, band)}) = 1
           /\ RowBand(j, Green) <=> q = 1 * Scale
           /\ RowBand(j, Yellow) <=> q = 2 * Scale
           /\ RowBand(j, Red) <=> q > 2 * Scale

\* One table showing a green, a yellow and a red row
C10_Witness ==
  /\ Len(styled) = Len(display)
  /\ \E g, y, r \in 1..Len(styled) :
       /\ RowBand(g, Green) /\ display[g].Qualitaet = 1 * Scale
       /\ RowBand(y, Yellow) /\ display[y].Qualitaet = 2 * Scale
       /\ RowBand(r, Red) /\ display[r].Qualitaet > 2 * Scale
       /\ \A j \in {g, y, r} :
            IsPosInt(display[j].PolzahlRotor)
              /\ IsPosInt(display[j].Modulatorzahl)

\* Some range of the request w carries a negative tolerance
NegativeTolerance(w) ==
  \E n \in 1..Len(w.reqs) : w.reqs[n].tolerance < 0

====
